---- MODULE Spec2Model ----
(***************************************************************************)
(* Cart -> checkout -> order pipeline of the e-commerce backend.           *)
(*                                                                         *)
(* State: the catalog's per-variant stock and sold-count, the OrderHistory *)
(* collection, the cart collection, and the position and locals of every   *)
(* request handler that is suspended at a database round trip.             *)
(***************************************************************************)
EXTENDS Integers, Sequences, FiniteSets, TLC

VARIABLES
    stock,      \* variant id -> variants.$.stock
    sells,      \* variant id -> variants.$.sells
    orders,     \* the OrderHistory collection: a set of order documents
    clock,      \* number of documents inserted so far (gives _id and createdAt)
    today,      \* the calendar day new Date() falls on
    ck,         \* createOrder handlers: handler id -> position and locals
    carts,      \* the cart collection: a set of cart documents
    cartSeq,    \* number of cart documents inserted so far (gives _id)
    mg,         \* mergeCart handlers: handler id -> position and locals
    carts0,     \* history: the cart collection the concurrent merges started on
    trackers,   \* the abandonedCarts collection: a set of tracking records
    now,        \* the hour new Date() / Date.now() falls in
    lastOp,     \* history: the cart or tracking request served last
    mk,         \* markCheckoutStarted handlers: handler id -> position and locals
    cartIndex,  \* whether abandonedCarts has its unique index on cart
    promos,     \* the promo code collection: code -> promo document
    pa,         \* the applyPromoCode handlers: position and locals of each
    reply       \* the response validatePromoCode sent last

orderSide == <<stock, sells, orders, clock, today, ck>>
cartSide == <<carts, cartSeq, mg, carts0>>
trackSide == <<trackers, now, lastOp, mk, cartIndex>>
promoSide == <<promos, pa, reply>>
vars == <<stock, sells, orders, clock, today, ck, carts, cartSeq, mg, carts0,
          trackers, now, lastOp, mk, cartIndex, promos, pa, reply>>

-----------------------------------------------------------------------------
(* Bounds *)

MaxQty == 2         \* largest quantity a client puts on one line
MaxStock == 2       \* largest stock a variant starts with
MaxOrders == 2      \* orders the sequential runs persist before stopping
MaxHistory == 2     \* status-history entries an order collects
MaxCartQty == 2     \* largest quantity a client puts on one cart line
MaxCarts == 2      \* cart documents the sequential runs insert

-----------------------------------------------------------------------------
(* Catalog *)

\* Product P1 has the variants V1 and V2.  P2 is a product id that is no
\* longer in the catalog, V3 a variant id that no product has.
VariantIds == {"V1", "V2", "V3"}
Variants == {"V1", "V2"}

Catalog ==
    [P1 |-> [name |-> "P1",
             variants |-> [V1 |-> [regularPrice |-> 20, salePrice |-> 0],
                           V2 |-> [regularPrice |-> 30, salePrice |-> 25]]]]

Null == "null"

\* Product.findById(id) returns a document (not null).
ProductFound(id) == id \in DOMAIN Catalog

\* product.variants.find(v => v._id.toString() === item.variantId) returns a
\* variant (not undefined).
VariantFound(product, variantId) == variantId \in DOMAIN product.variants

\* variant.salePrice > 0 ? variant.salePrice : variant.regularPrice
UnitPrice(variant) ==
    IF variant.salePrice > 0 THEN variant.salePrice ELSE variant.regularPrice

\* The pre-check as it would be if it only asked whether the variant is in
\* stock at all.
InsufficientStockInStockOnly(variantStock, quantity) == variantStock <= 0

\* variant.stock < item.quantity  (the pre-check that throws 400)
InsufficientStock(variantStock, quantity) == variantStock < quantity

-----------------------------------------------------------------------------
(* Request bodies of POST /api/orders *)

ClientPrices == {1}
ClientAmounts == {45}
ShippingCosts == {0, 5}

\* Lines for the variants of P1 in every quantity, one line for a variant P1
\* does not have and one line for a product that is gone.
Lines ==
    [productId : {"P1"}, variantId : Variants, quantity : 1..MaxQty,
     price : ClientPrices]
    \cup [productId : {"P1"}, variantId : VariantIds \ Variants, quantity : {1},
          price : ClientPrices]
    \cup [productId : {"P2"}, variantId : {"V1"}, quantity : {1},
          price : ClientPrices]

ItemLists == {<<>>} \cup {<<a>> : a \in Lines} \cup {<<a, b>> : a, b \in Lines}

Bodies == [items : ItemLists, amount : ClientAmounts, shippingCost : ShippingCosts]

-----------------------------------------------------------------------------
(* Order documents *)

Statuses == {"pending", "processing", "shipped", "delivered", "cancelled", "returned"}

\* orderItemSchema is strict: of a validated item it keeps name, price,
\* quantity and totalPrice.
OrderItem(v) ==
    [name |-> v.name, price |-> v.price, quantity |-> v.quantity,
     totalPrice |-> v.totalPrice]

RECURSIVE OrderItems(_)
OrderItems(vs) ==
    IF vs = <<>> THEN <<>> ELSE <<OrderItem(Head(vs))>> \o OrderItems(Tail(vs))

\* Order.findOne({orderId: /^prefix/}).sort({createdAt: -1}): the orders whose
\* id carries the day's prefix, and the one of them created last.
OrdersOfDay(day) == {o \in orders : o.orderId.day = day}

LastOrder(todays) == CHOOSE o \in todays : \A x \in todays : x.createdAt <= o.createdAt

\* generateOrderId: the day's prefix followed by the last order's sequence
\* number plus one, or by 1 when the day has no order yet.
GenerateOrderId(day) ==
    LET todays == OrdersOfDay(day)
    IN  [day |-> day,
         num |-> IF todays = {} THEN 1 ELSE LastOrder(todays).orderId.num + 1]

\* The collection as it would be without the unique index.
DuplicateKeyNoIndex(orderId) == FALSE

\* The unique index on orderId: an insert with an orderId already present
\* is rejected with a duplicate-key error.
DuplicateKey(orderId) == \E o \in orders : o.orderId = orderId

\* The document Order.create persists.
NewOrder(id, orderId, validatedItems, finalAmount) ==
    [_id |-> id,
     orderId |-> orderId,
     items |-> OrderItems(validatedItems),
     amount |-> finalAmount,
     orderStatus |-> "pending",
     statusHistory |-> <<"pending">>,
     courierInfo |-> [consignmentId |-> Null, status |-> Null],
     createdAt |-> id]

-----------------------------------------------------------------------------
(* createOrder, one action per database round trip *)

Handlers == {"r1", "r2"}

IdleHandler ==
    [pc |-> "idle", body |-> Null, validatedItems |-> <<>>, validatedTotal |-> 0,
     orderId |-> Null, order |-> 0, i |-> 0, error |-> 0,
     stockAtStart |-> Null, sellsAtStart |-> Null]

\* The entry as it would be if the client's price were taken over.
ValidatedItemClientPrice(item, product) ==
    [productId |-> item.productId,
     variantId |-> item.variantId,
     name |-> product.name,
     price |-> item.price,
     quantity |-> item.quantity,
     totalPrice |-> item.price * item.quantity]

\* The entry the validation loop pushes on validatedItems: the price is the
\* catalog's, the line total that price times the requested quantity.
ValidatedItem(item, product) ==
    LET unitPrice == UnitPrice(product.variants[item.variantId])
        itemTotal == unitPrice * item.quantity
    IN  [productId |-> item.productId,
         variantId |-> item.variantId,
         name |-> product.name,
         price |-> unitPrice,
         quantity |-> item.quantity,
         totalPrice |-> itemTotal]

\* The request arrives with a body of the given set; an empty item list is
\* rejected with 400.
ReceiveOrder(p, bodies) ==
    /\ ck[p].pc = "idle"
    /\ \E body \in bodies :
         ck' = [ck EXCEPT ![p] =
                  [IdleHandler EXCEPT
                     !.body = body,
                     !.stockAtStart = stock,
                     !.sellsAtStart = sells,
                     !.pc = IF Len(body.items) = 0 THEN "failed" ELSE "validate",
                     !.error = IF Len(body.items) = 0 THEN 400 ELSE 0]]
    /\ UNCHANGED <<stock, sells, orders, clock, today>>
    /\ UNCHANGED <<cartSide, trackSide, promoSide>>

\* One iteration of the validation loop: findById, find the variant, check
\* the stock, derive the price.
ValidateItem(p) ==
    /\ ck[p].pc = "validate"
    /\ LET h == ck[p]
           item == h.body.items[Len(h.validatedItems) + 1]
           product == Catalog[item.productId]
           variantId == item.variantId
       IN  IF ~ProductFound(item.productId) \/ ~VariantFound(product, variantId)
           THEN ck' = [ck EXCEPT ![p].pc = "failed", ![p].error = 404]
           ELSE IF InsufficientStock(stock[variantId], item.quantity)
           THEN ck' = [ck EXCEPT ![p].pc = "failed", ![p].error = 400]
           ELSE LET validated == ValidatedItem(item, product)
                    all == Append(h.validatedItems, validated)
                IN  ck' = [ck EXCEPT
                             ![p].validatedItems = all,
                             ![p].validatedTotal = h.validatedTotal + validated.totalPrice,
                             ![p].pc = IF Len(all) = Len(h.body.items)
                                       THEN "generateOrderId" ELSE "validate"]
    /\ UNCHANGED <<stock, sells, orders, clock, today>>
    /\ UNCHANGED <<cartSide, trackSide, promoSide>>

\* generateOrderId's findOne of the day's latest order.
ReadLastOrder(p) ==
    /\ ck[p].pc = "generateOrderId"
    /\ ck' = [ck EXCEPT ![p].orderId = GenerateOrderId(today), ![p].pc = "create"]
    /\ UNCHANGED <<stock, sells, orders, clock, today>>
    /\ UNCHANGED <<cartSide, trackSide, promoSide>>

\* The amount as it would be if the client's total were persisted.
FinalAmountClient(validatedTotal, body) == body.amount

\* shipping + validatedTotal
FinalAmount(validatedTotal, body) == validatedTotal + body.shippingCost

\* Order.create: the insert, or the duplicate-key error that fails the request.
InsertOrder(p) ==
    /\ ck[p].pc = "create"
    /\ LET h == ck[p]
       IN  IF DuplicateKey(h.orderId)
           THEN /\ ck' = [ck EXCEPT ![p].pc = "failed", ![p].error = 500]
                /\ UNCHANGED <<orders, clock>>
           ELSE /\ clock' = clock + 1
                /\ orders' = orders \cup
                     {NewOrder(clock + 1, h.orderId, h.validatedItems,
                               FinalAmount(h.validatedTotal, h.body))}
                /\ ck' = [ck EXCEPT ![p].order = clock + 1, ![p].i = 1,
                                    ![p].pc = "decrement"]
    /\ UNCHANGED <<stock, sells, today>>
    /\ UNCHANGED <<cartSide, trackSide, promoSide>>

\* The update as it would be if it matched the product only: the positional
\* operator then hits the product's first variant.
IncStockFirstVariant(s, variantId, quantity) == [s EXCEPT !["V1"] = @ - quantity]

\* Product.updateOne({_id, 'variants._id'}, {$inc: {stock: -q, sells: q}})
IncStock(s, variantId, quantity) == [s EXCEPT ![variantId] = @ - quantity]
IncSells(s, variantId, quantity) == [s EXCEPT ![variantId] = @ + quantity]

\* One iteration of the stock-update loop; after the last one the handler
\* responds 201.
DecrementStock(p) ==
    /\ ck[p].pc = "decrement"
    /\ LET h == ck[p]
           item == h.validatedItems[h.i]
       IN  /\ stock' = IncStock(stock, item.variantId, item.quantity)
           /\ sells' = IncSells(sells, item.variantId, item.quantity)
           /\ ck' = [ck EXCEPT ![p].i = h.i + 1,
                               ![p].pc = IF h.i = Len(h.validatedItems)
                                         THEN "done" ELSE "decrement"]
    /\ UNCHANGED <<orders, clock, today>>
    /\ UNCHANGED <<cartSide, trackSide, promoSide>>

StartCheckout(p) == ReceiveOrder(p, Bodies)

RunCheckout(p) ==
    \/ ValidateItem(p)
    \/ ReadLastOrder(p)
    \/ InsertOrder(p)
    \/ DecrementStock(p)

\* The response has been sent; the handler is free for the next request.
Respond(p) ==
    /\ ck[p].pc \in {"done", "failed"}
    /\ clock < MaxOrders
    /\ ck' = [ck EXCEPT ![p] = IdleHandler]
    /\ UNCHANGED <<stock, sells, orders, clock, today>>
    /\ UNCHANGED <<cartSide, trackSide, promoSide>>

\* The calendar days of a run.
Days == {1, 2}

\* Midnight passes.
NextDay ==
    /\ today + 1 \in Days
    /\ today' = today + 1
    /\ UNCHANGED <<stock, sells, orders, clock, ck>>
    /\ UNCHANGED <<cartSide, trackSide, promoSide>>

-----------------------------------------------------------------------------
(* Order administration: every handler is a single write per document *)

\* Values of req.body.status: two of the enum and one string outside it.
StatusInputs == {"processing", "delivered", "archived"}

\* Delivery states the courier reports, and the consignment ids it hands out
\* (Null when its answer carries none).
CourierStatuses == {"in_review", "delivered", "cancelled"}
ConsignmentIds == {"c1", Null}

IdSets == SUBSET {o._id : o \in orders} \ {{}}

\* updateMany's update applied to one matching document.
SetStatusAndPush(o, status) ==
    [o EXCEPT !.orderStatus = status,
              !.statusHistory = Append(@, status)]

\* updateOrderStatus: Order.updateMany({_id: {$in: ids}},
\*   {orderStatus: status, $push: {statusHistory: {status, ...}}})
UpdateOrderStatus ==
    \E ids \in IdSets, status \in StatusInputs :
        /\ \A o \in orders : o._id \in ids => Len(o.statusHistory) < MaxHistory
        /\ orders' = {IF o._id \in ids THEN SetStatusAndPush(o, status) ELSE o
                      : o \in orders}
        /\ UNCHANGED <<stock, sells, clock, today, ck>>
        /\ UNCHANGED <<cartSide, trackSide, promoSide>>

\* {orderStatus: false}: the String path casts the boolean to "false".
SetStatusFalse(o) == [o EXCEPT !.orderStatus = "false"]

\* cancelOrders: Order.updateMany({_id: {$in: ids}}, {orderStatus: false})
CancelOrders ==
    \E ids \in IdSets :
        /\ orders' = {IF o._id \in ids THEN SetStatusFalse(o) ELSE o : o \in orders}
        /\ UNCHANGED <<stock, sells, clock, today, ck>>
        /\ UNCHANGED <<cartSide, trackSide, promoSide>>

\* deleteOrders: Order.deleteMany({_id: {$in: ids}})
DeleteOrders ==
    \E ids \in IdSets :
        /\ orders' = {o \in orders : o._id \notin ids}
        /\ UNCHANGED <<stock, sells, clock, today, ck>>
        /\ UNCHANGED <<cartSide, trackSide, promoSide>>

\* The save as it would be if it also wrote the cash-on-delivery amount (0 for
\* a prepaid order) into the order's amount.
SaveCourierInfoCodAmount(o, consignmentId, status) ==
    [o EXCEPT !.courierInfo = [consignmentId |-> consignmentId, status |-> status],
              !.orderStatus = "shipped",
              !.amount = 0]

\* order.courierInfo = courierInfo; order.orderStatus = 'shipped'; order.save()
SaveCourierInfo(o, consignmentId, status) ==
    [o EXCEPT !.courierInfo = [consignmentId |-> consignmentId, status |-> status],
              !.orderStatus = "shipped"]

\* sendToCourier: rejected when the order already has a consignment id.
SendToCourier ==
    \E o \in orders, consignmentId \in ConsignmentIds, status \in CourierStatuses :
        /\ o.courierInfo.consignmentId = Null
        /\ orders' = (orders \ {o}) \cup {SaveCourierInfo(o, consignmentId, status)}
        /\ UNCHANGED <<stock, sells, clock, today, ck>>
        /\ UNCHANGED <<cartSide, trackSide, promoSide>>

\* One iteration of syncCourierStatus whose status changed: courierInfo.status
\* takes the new delivery status, delivered and cancelled map to orderStatus.
SaveSyncedStatus(o, newStatus) ==
    [o EXCEPT !.courierInfo.status = newStatus,
              !.orderStatus = IF newStatus \in {"delivered", "cancelled"}
                              THEN newStatus ELSE @]

\* syncCourierStatus on one order id.
SyncCourierStatus ==
    \E o \in orders, newStatus \in CourierStatuses :
        /\ o.courierInfo.consignmentId # Null
        /\ o.courierInfo.status # newStatus
        /\ orders' = (orders \ {o}) \cup {SaveSyncedStatus(o, newStatus)}
        /\ UNCHANGED <<stock, sells, clock, today, ck>>
        /\ UNCHANGED <<cartSide, trackSide, promoSide>>

-----------------------------------------------------------------------------
(* Carts *)

Users == {"u1"}
Sessions == {"s1"}

\* Product + variant pairs a cart line can reference.
CartPairs == {<<"P1", "V1">>, <<"P1", "V2">>, <<"P2", "V3">>}

CartLines ==
    {[product |-> pr[1], variantId |-> pr[2], quantity |-> q]
     : pr \in CartPairs, q \in 1..MaxCartQty}

\* Item lists a client sends to POST /api/cart.
CartItemLists ==
    {<<>>} \cup {<<a>> : a \in CartLines} \cup {<<a, b>> : a, b \in CartLines}

\* req.body.guestItems of POST /api/cart/merge (the legacy fallback): absent,
\* or one line in the client's productId/variantId/quantity shape.
GuestItemLists == {<<>>, <<[product |-> "P1", variantId |-> "V1", quantity |-> 1]>>}

\* Cart.findOne(query): the matching carts, and the one the store returns.
CartsOfUser(u) == {c \in carts : c.user = u}
CartsOfSession(sid) == {c \in carts : c.sessionId = sid}
FirstCart(cs) == CHOOSE c \in cs : \A x \in cs : c._id <= x._id

\* A document of the cart collection; a user cart has no sessionId and a
\* guest cart no user.
NewCart(id, user, sessionId, items) ==
    [_id |-> id, user |-> user, sessionId |-> sessionId, items |-> items, version |-> 0]

\* updateCart and clearCart address the user's cart when the request is
\* authenticated, else the session's.
Identities == [user : Users, sessionId : {Null}] \cup [user : {Null}, sessionId : Sessions]
CartsOf(who) == IF who.user # Null THEN CartsOfUser(who.user)
                ELSE CartsOfSession(who.sessionId)

\* The request a cart or tracking handler served: its name, the identity it
\* served, the _id of the cart it found (0 for none), whether the items list
\* it was given was empty, and whether it repeats the request before it.
NoIdentity == [user |-> Null, sessionId |-> Null]
Op(op, who, cart, empty) ==
    [op |-> op, who |-> who, cart |-> cart, empty |-> empty, again |-> FALSE]
NoOp == Op("none", NoIdentity, 0, FALSE)

\* _id of the cart findOne / findOneAndDelete returns for the identity.
FoundCartId(who) == IF CartsOf(who) = {} THEN 0 ELSE FirstCart(CartsOf(who))._id

\* The cart's deletion as it would be if the tracking record were kept.
WithoutTrackerKept(ts, cartId) == ts

\* AbandonedCart.findOneAndDelete({cart: cart._id})
WithoutTracker(ts, cartId) == {t \in ts : t.cart # cartId}

\* updateCart for one identity and items list: an empty list deletes the cart
\* and, when there was one, its tracking record; any other list replaces the
\* cart's items or inserts a cart with them (findOneAndUpdate with upsert).
ReplaceCart(who, items) ==
    LET found == CartsOf(who)
    IN  /\ IF items = <<>>
           THEN /\ carts' = IF found = {} THEN carts ELSE carts \ {FirstCart(found)}
                /\ trackers' = IF found = {} THEN trackers
                               ELSE WithoutTracker(trackers, FirstCart(found)._id)
                /\ UNCHANGED cartSeq
           ELSE IF found # {}
           THEN /\ carts' = (carts \ {FirstCart(found)})
                            \cup {[FirstCart(found) EXCEPT !.items = items]}
                /\ UNCHANGED <<cartSeq, trackers>>
           ELSE /\ cartSeq < MaxCarts
                /\ cartSeq' = cartSeq + 1
                /\ carts' = carts \cup
                     {NewCart(cartSeq + 1, who.user, who.sessionId, items)}
                /\ UNCHANGED trackers
        /\ UNCHANGED <<mg, carts0, now, mk, cartIndex, orderSide, promoSide>>

UpdateCart ==
    \E who \in Identities, items \in CartItemLists :
        ReplaceCart(who, items) /\ UNCHANGED lastOp

\* clearCart for one identity: Cart.findOneAndDelete(query), then
\* AbandonedCart.findOneAndDelete({cart: cart._id}) when a cart was found.
ClearCartOf(who) ==
    /\ CartsOf(who) # {}
    /\ carts' = carts \ {FirstCart(CartsOf(who))}
    /\ trackers' = WithoutTracker(trackers, FirstCart(CartsOf(who))._id)
    /\ UNCHANGED <<cartSeq, mg, carts0, now, mk, cartIndex, orderSide, promoSide>>

ClearCart == \E who \in Identities : ClearCartOf(who) /\ UNCHANGED lastOp

\* getCart: the identity's cart document, or {items: []} when it has none.
EmptyItemsResult == [items |-> <<>>]
GetCart(who) == IF CartsOf(who) = {} THEN EmptyItemsResult ELSE FirstCart(CartsOf(who))

-----------------------------------------------------------------------------
(* mergeCart, one action per database round trip *)

Mergers == {"m1", "m2"}

NoCart == NewCart(0, Null, Null, <<>>)

IdleMerger ==
    [pc |-> "idle", user |-> Null, sessionId |-> Null, guestItems |-> <<>>,
     guestCartId |-> 0, itemsToMerge |-> <<>>, cart |-> NoCart, error |-> 0]

\* Index of the first item of the list with the product and variant of the
\* guest item, 0 when there is none (cart.items.find).
RECURSIVE FindItem(_, _, _)
FindItem(items, guestItem, k) ==
    IF k > Len(items) THEN 0
    ELSE IF /\ items[k].product = guestItem.product
            /\ items[k].variantId = guestItem.variantId
         THEN k
         ELSE FindItem(items, guestItem, k + 1)

\* The merge as it would be if a matching item took the guest's quantity
\* instead of adding it.
MergeItemOverwrite(items, guestItem) ==
    LET k == FindItem(items, guestItem, 1)
    IN  IF k # 0
        THEN [items EXCEPT ![k].quantity = guestItem.quantity]
        ELSE Append(items, guestItem)

\* One turn of the merge loop: add the quantity to the matching item, or
\* push the guest item.
MergeItem(items, guestItem) ==
    LET k == FindItem(items, guestItem, 1)
    IN  IF k # 0
        THEN [items EXCEPT ![k].quantity = @ + guestItem.quantity]
        ELSE Append(items, guestItem)

\* itemsToMerge.forEach(...)
RECURSIVE MergeItems(_, _)
MergeItems(items, itemsToMerge) ==
    IF itemsToMerge = <<>> THEN items
    ELSE MergeItems(MergeItem(items, Head(itemsToMerge)), Tail(itemsToMerge))

\* The request arrives.  Without a session header the guest-cart lookup is
\* skipped.
StartMerge(m) ==
    /\ mg[m].pc = "idle"
    /\ \E u \in Users, sid \in Sessions \cup {Null}, guestItems \in GuestItemLists :
         mg' = [mg EXCEPT ![m] =
                  [IdleMerger EXCEPT
                     !.user = u, !.sessionId = sid, !.guestItems = guestItems,
                     !.pc = IF sid # Null THEN "findGuestCart" ELSE "fallback"]]
    /\ UNCHANGED <<carts, cartSeq, carts0, orderSide, trackSide, promoSide>>

\* Cart.findOne({sessionId}); a guest cart with items is taken as the items
\* to merge and is deleted next.
FindGuestCart(m) ==
    /\ mg[m].pc = "findGuestCart"
    /\ LET found == CartsOfSession(mg[m].sessionId)
       IN  IF found # {} /\ Len(FirstCart(found).items) > 0
           THEN mg' = [mg EXCEPT ![m].itemsToMerge = FirstCart(found).items,
                                 ![m].guestCartId = FirstCart(found)._id,
                                 ![m].pc = "deleteGuestCart"]
           ELSE mg' = [mg EXCEPT ![m].pc = "fallback"]
    /\ UNCHANGED <<carts, cartSeq, carts0, orderSide, trackSide, promoSide>>

\* Cart.findByIdAndDelete(guestCart._id)
DeleteGuestCart(m) ==
    /\ mg[m].pc = "deleteGuestCart"
    /\ carts' = {c \in carts : c._id # mg[m].guestCartId}
    /\ mg' = [mg EXCEPT ![m].pc = "fallback"]
    /\ UNCHANGED <<cartSeq, carts0, orderSide, trackSide, promoSide>>

\* The body's guestItems stand in when the guest cart gave nothing; with
\* nothing to merge the handler returns the user's cart as it is.  Else it
\* loads the user's cart (Cart.findOne({user})) or starts a new one.
FindUserCart(m) ==
    /\ mg[m].pc = "fallback"
    /\ LET itemsToMerge == IF mg[m].itemsToMerge = <<>> THEN mg[m].guestItems
                           ELSE mg[m].itemsToMerge
           found == CartsOfUser(mg[m].user)
       IN  IF itemsToMerge = <<>>
           THEN mg' = [mg EXCEPT ![m].pc = "done"]
           ELSE mg' = [mg EXCEPT
                         ![m].itemsToMerge = itemsToMerge,
                         ![m].cart = IF found # {} THEN FirstCart(found)
                                     ELSE NewCart(0, mg[m].user, Null, <<>>),
                         ![m].pc = "save"]
    /\ UNCHANGED <<carts, cartSeq, carts0, orderSide, trackSide, promoSide>>

\* What cart.save() sends for a loaded document.  Changed quantities of
\* existing items go out as $set on their positions, guarded by the version
\* the document was loaded with; pushed items go out as $push and raise the
\* version; both together go out as a $set of the whole array, guarded by
\* the version and raising it.
Pushed(loaded, merged) == SubSeq(merged, Len(loaded) + 1, Len(merged))
Modified(loaded, merged) == {k \in 1..Len(loaded) : merged[k] # loaded[k]}

VersionError(stored, loaded, merged) ==
    /\ Modified(loaded.items, merged) # {}
    /\ stored.version # loaded.version

SavedCart(stored, loaded, merged) ==
    LET pushed == Pushed(loaded.items, merged)
        modified == Modified(loaded.items, merged)
    IN  IF modified = {}
        THEN [stored EXCEPT !.items = @ \o pushed, !.version = @ + 1]
        ELSE IF pushed = <<>>
        THEN [stored EXCEPT
                !.items = [k \in 1..Len(@) |->
                             IF k \in modified THEN [@[k] EXCEPT !.quantity = merged[k].quantity]
                             ELSE @[k]]]
        ELSE [stored EXCEPT !.items = merged, !.version = @ + 1]

\* The in-memory merge and cart.save(): an insert for a new cart, an update
\* for a loaded one; a version conflict fails the request.
SaveCart(m) ==
    /\ mg[m].pc = "save"
    /\ LET loaded == mg[m].cart
           merged == MergeItems(loaded.items, mg[m].itemsToMerge)
           stored == {c \in carts : c._id = loaded._id}
       IN  IF loaded._id = 0
           THEN /\ cartSeq' = cartSeq + 1
                /\ carts' = carts \cup {NewCart(cartSeq + 1, loaded.user, Null, merged)}
                /\ mg' = [mg EXCEPT ![m].pc = "done"]
           ELSE IF stored = {} \/ VersionError(FirstCart(stored), loaded, merged)
           THEN /\ mg' = [mg EXCEPT ![m].pc = "failed", ![m].error = 500]
                /\ UNCHANGED <<carts, cartSeq>>
           ELSE /\ carts' = (carts \ stored)
                            \cup {SavedCart(FirstCart(stored), loaded, merged)}
                /\ mg' = [mg EXCEPT ![m].pc = "done"]
                /\ UNCHANGED cartSeq
    /\ UNCHANGED <<carts0, orderSide, trackSide, promoSide>>

RunMerge(m) ==
    \/ FindGuestCart(m)
    \/ DeleteGuestCart(m)
    \/ FindUserCart(m)
    \/ SaveCart(m)

\* The response has been sent.
RespondMerge(m) ==
    /\ mg[m].pc \in {"done", "failed"}
    /\ mg' = [mg EXCEPT ![m] = IdleMerger]
    /\ UNCHANGED <<carts, cartSeq, carts0, orderSide, trackSide, promoSide>>

-----------------------------------------------------------------------------
(* Abandonment tracking *)

\* Hours at which requests arrive.  A record touched at hour 0 is exactly one
\* hour old at 1, two hours old at 2, a day and an hour old at 25.
Instants == {0, 1, 2, 25, 26}

\* The thresholds of the two sweeps, in hours.
CronHours == 24
DashboardHours == 1

\* abandonedAt of a record that has none.
NoDate == -1

ActiveStages == {"checkout_started", "checkout_info_filled"}

\* new AbandonedCart({cart, stage: 'checkout_info_filled', checkoutStartedAt,
\* lastActivityAt}): abandonedAt is not set.
NewTracker(cartId, at) ==
    [cart |-> cartId, stage |-> "checkout_info_filled", checkoutStartedAt |-> at,
     lastActivityAt |-> at, abandonedAt |-> NoDate]

\* The update of an existing record: stage and lastActivityAt are assigned,
\* abandonedAt is not touched.
TouchedTracker(t, at) ==
    [t EXCEPT !.stage = "checkout_info_filled", !.lastActivityAt = at]

\* markCheckoutStarted: Cart.findOne(query) (404 without a cart), then
\* AbandonedCart.findOne({cart}), then save of the new or the updated record.
MarkCheckoutStarted ==
    \E who \in Identities :
        /\ CartsOf(who) # {}
        /\ LET existing == {t \in trackers : t.cart = FoundCartId(who)}
           IN  trackers' = IF existing = {}
                           THEN trackers \cup {NewTracker(FoundCartId(who), now)}
                           ELSE (trackers \ existing)
                                \cup {TouchedTracker(t, now) : t \in existing}
        /\ lastOp' = Op("markCheckoutStarted", who, FoundCartId(who), FALSE)
        /\ UNCHANGED <<now, mk, cartIndex, cartSide, orderSide, promoSide>>

\* markCartConverted: with a cart found, AbandonedCart.findOneAndDelete({cart})
\* and Cart.findByIdAndDelete(cart._id).
MarkCartConverted ==
    \E who \in Identities :
        /\ CartsOf(who) # {}
        /\ trackers' = WithoutTracker(trackers, FoundCartId(who))
        /\ carts' = {c \in carts : c._id # FoundCartId(who)}
        /\ lastOp' = Op("markCartConverted", who, FoundCartId(who), FALSE)
        /\ UNCHANGED <<cartSeq, mg, carts0, now, mk, cartIndex, orderSide, promoSide>>

\* markCheckoutStarted, one action per database round trip.
Starters == {"k1", "k2"}

IdleStarter ==
    [pc |-> "idle", who |-> NoIdentity, cart |-> 0, found |-> FALSE, status |-> 0]

\* The request arrives for an identity.
StartMark(k) ==
    /\ mk[k].pc = "idle"
    /\ \E who \in Identities :
         mk' = [mk EXCEPT ![k] = [IdleStarter EXCEPT !.who = who, !.pc = "findCart"]]
    /\ UNCHANGED <<trackers, now, lastOp, cartIndex, cartSide, orderSide, promoSide>>

\* Cart.findOne(query): 404 without a cart.
FindCartToTrack(k) ==
    /\ mk[k].pc = "findCart"
    /\ mk' = IF CartsOf(mk[k].who) = {}
             THEN [mk EXCEPT ![k].pc = "failed", ![k].status = 404]
             ELSE [mk EXCEPT ![k].cart = FoundCartId(mk[k].who),
                             ![k].pc = "findTracker"]
    /\ UNCHANGED <<trackers, now, lastOp, cartIndex, cartSide, orderSide, promoSide>>

\* AbandonedCart.findOne({cart: cart._id})
FindTracker(k) ==
    /\ mk[k].pc = "findTracker"
    /\ mk' = [mk EXCEPT ![k].found = \E t \in trackers : t.cart = mk[k].cart,
                        ![k].pc = "save"]
    /\ UNCHANGED <<trackers, now, lastOp, cartIndex, cartSide, orderSide, promoSide>>

\* The duplicate-key error of an insert: raised by the unique index on cart,
\* where the collection has it.
DuplicateCart(cartId) == cartIndex /\ \E t \in trackers : t.cart = cartId

\* abandonedCart.save(): the insert of the new record, or the update of the
\* record that was found (an error when it is gone).  Two records of one cart
\* differ in their timestamps.
SaveTracker(k) ==
    /\ mk[k].pc = "save"
    /\ LET h == mk[k]
           stored == {t \in trackers : t.cart = h.cart}
       IN  IF ~h.found
           THEN IF DuplicateCart(h.cart)
                THEN /\ mk' = [mk EXCEPT ![k].pc = "failed", ![k].status = 500]
                     /\ UNCHANGED trackers
                ELSE /\ trackers' = trackers \cup {NewTracker(h.cart, now)}
                     /\ mk' = [mk EXCEPT ![k].pc = "done", ![k].status = 200]
           ELSE IF stored = {}
                THEN /\ mk' = [mk EXCEPT ![k].pc = "failed", ![k].status = 500]
                     /\ UNCHANGED trackers
                ELSE /\ trackers' = (trackers \ stored)
                                    \cup {TouchedTracker(t, now) : t \in stored}
                     /\ mk' = [mk EXCEPT ![k].pc = "done", ![k].status = 200]
    /\ UNCHANGED <<now, lastOp, cartIndex, cartSide, orderSide, promoSide>>

RunMark(k) ==
    \/ FindCartToTrack(k)
    \/ FindTracker(k)
    \/ SaveTracker(k)

\* The staleness test as it would be with $lte.
StaleInclusive(t, threshold) == t.lastActivityAt <= threshold

\* lastActivityAt: {$lt: threshold}
Stale(t, threshold) == t.lastActivityAt < threshold

\* The sweep as it would be with updateOne: only the first match is updated.
SweepMatchesFirstOnly(ts, threshold) ==
    LET matches == {t \in ts : t.stage \in ActiveStages /\ Stale(t, threshold)}
    IN  {t \in matches : \A x \in matches : t.cart <= x.cart}

\* The records updateMany's filter matches: an active stage and a last
\* activity before the threshold.
SweepMatches(ts, threshold) ==
    {t \in ts : t.stage \in ActiveStages /\ Stale(t, threshold)}

\* $set: {stage: 'abandoned', abandonedAt: new Date()}
Abandon(t, at) == [t EXCEPT !.stage = "abandoned", !.abandonedAt = at]

Sweep(ts, threshold, at) ==
    (ts \ SweepMatches(ts, threshold))
    \cup {Abandon(t, at) : t \in SweepMatches(ts, threshold)}

\* A sweep served; it repeats the request before it when that was the same
\* sweep, with no request and no hour in between.
SweepOp(op) == [Op(op, NoIdentity, 0, FALSE) EXCEPT !.again = (lastOp.op = op)]

\* processAbandonedCarts: the scheduler's sweep, 24 hours.
ProcessAbandonedCarts ==
    /\ trackers' = Sweep(trackers, now - CronHours, now)
    /\ lastOp' = SweepOp("processAbandonedCarts")
    /\ UNCHANGED <<now, mk, cartIndex, cartSide, orderSide, promoSide>>

\* getAbandonedCarts: the dashboard's sweep, one hour, before it lists.
GetAbandonedCarts ==
    /\ trackers' = Sweep(trackers, now - DashboardHours, now)
    /\ lastOp' = SweepOp("getAbandonedCarts")
    /\ UNCHANGED <<now, mk, cartIndex, cartSide, orderSide, promoSide>>

-----------------------------------------------------------------------------
(* Promo codes.  Amounts are in cents. *)

Codes == {"SAVE10"}
CodeInputs == {"save10", "NOPE"}

\* code.toUpperCase()
ToUpperCase(code) == IF code = "save10" THEN "SAVE10" ELSE code

CategoryInputs == {Null, "shoes", "hats"}
OrderTotals == {0, 105, 10000, 20000}

MaxUses == 2

\* maxDiscount and usageLimit are <<>> for null and <<n>> for the number n.
PromoDocs ==
    [discountType : {"percentage"}, discountValue : {0, 10, 150},
     minOrderAmount : {0, 10000}, maxDiscount : {<<>>, <<-500>>, <<0>>, <<1500>>},
     usageLimit : {<<>>, <<1>>}, usedCount : {0}, validFrom : {1}, validUntil : {2},
     isActive : {TRUE}, applicableCategories : {<<>>, <<"shoes">>}]
    \cup
    [discountType : {"fixed"}, discountValue : {0, 1000, 25000},
     minOrderAmount : {0, 10000}, maxDiscount : {<<>>, <<-500>>, <<0>>, <<1500>>},
     usageLimit : {<<>>, <<1>>}, usedCount : {0}, validFrom : {1}, validUntil : {2},
     isActive : {TRUE}, applicableCategories : {<<>>, <<"shoes">>}]

\* The promo of the specification's examples.
Save10 ==
    [discountType |-> "percentage", discountValue |-> 10, minOrderAmount |-> 0,
     maxDiscount |-> <<1500>>, usageLimit |-> <<>>, usedCount |-> 0, validFrom |-> 1,
     validUntil |-> 2, isActive |-> TRUE, applicableCategories |-> <<>>]

ErrorIf(violated, error) == IF violated THEN <<error>> ELSE <<>>

Includes(list, x) == \E k \in 1..Len(list) : list[k] = x

\* validateForOrder as it would be if it stopped at the first violated rule.
ValidateForOrderFirstOnly(promo, at, orderTotal, category) ==
    LET errors ==
            ErrorIf(~promo.isActive, "inactive")
            \o ErrorIf(at < promo.validFrom, "notYetValid")
            \o ErrorIf(at > promo.validUntil, "expired")
            \o ErrorIf(promo.usageLimit # <<>> /\ promo.usedCount >= promo.usageLimit[1],
                       "usageLimit")
            \o ErrorIf(orderTotal < promo.minOrderAmount, "minOrder")
            \o ErrorIf(/\ Len(promo.applicableCategories) > 0
                       /\ category # Null
                       /\ ~Includes(promo.applicableCategories, category),
                       "category")
    IN  IF errors = <<>> THEN <<>> ELSE <<Head(errors)>>

\* validateForOrder: every check runs and pushes its error.
ValidateForOrder(promo, at, orderTotal, category) ==
    ErrorIf(~promo.isActive, "inactive")
    \o ErrorIf(at < promo.validFrom, "notYetValid")
    \o ErrorIf(at > promo.validUntil, "expired")
    \o ErrorIf(promo.usageLimit # <<>> /\ promo.usedCount >= promo.usageLimit[1],
               "usageLimit")
    \o ErrorIf(orderTotal < promo.minOrderAmount, "minOrder")
    \o ErrorIf(/\ Len(promo.applicableCategories) > 0
               /\ category # Null
               /\ ~Includes(promo.applicableCategories, category),
               "category")

\* calculateDiscount carries the discount as a fraction; here it is carried
\* in hundredths of a cent until it is rounded.
\* (orderTotal * discountValue) / 100 for a percentage, discountValue else.
RawDiscount(promo, orderTotal) ==
    IF promo.discountType = "percentage"
    THEN orderTotal * promo.discountValue
    ELSE promo.discountValue * 100

\* The cap as it would be if maxDiscount were never looked at.
CappedByMaxIgnored(promo, discount) == discount

\* if (this.maxDiscount !== null && discount > this.maxDiscount)
CappedByMax(promo, discount) ==
    IF promo.maxDiscount # <<>> /\ discount > promo.maxDiscount[1] * 100
    THEN promo.maxDiscount[1] * 100
    ELSE discount

\* if (discount > orderTotal) discount = orderTotal
CappedByTotal(discount, orderTotal) ==
    IF discount > orderTotal * 100 THEN orderTotal * 100 ELSE discount

\* Math.round(discount * 100) / 100: to the nearest cent, halves upwards.
RoundCents(discount) == (discount + 50) \div 100

CalculateDiscount(promo, orderTotal) ==
    RoundCents(CappedByTotal(CappedByMax(promo, RawDiscount(promo, orderTotal)),
                             orderTotal))

\* The response of validatePromoCode, with the request it answers.
Reply(status, errors, discount, code, orderTotal, category) ==
    [status |-> status, errors |-> errors, discount |-> discount, code |-> code,
     orderTotal |-> orderTotal, category |-> category]
NoReply == Reply(0, <<>>, 0, Null, 0, Null)

\* validatePromoCode: 404 for an unknown code, 400 with the error list for a
\* promo that fails validateForOrder, else 200 with the discount.
ValidatePromoCode ==
    /\ reply = NoReply
    /\ \E code \in CodeInputs, orderTotal \in OrderTotals, category \in CategoryInputs :
         LET key == ToUpperCase(code)
             errors == ValidateForOrder(promos[key], now, orderTotal, category)
         IN  reply' =
               IF key \notin DOMAIN promos
               THEN Reply(404, <<>>, 0, key, orderTotal, category)
               ELSE IF errors # <<>>
               THEN Reply(400, errors, 0, key, orderTotal, category)
               ELSE Reply(200, <<>>, CalculateDiscount(promos[key], orderTotal),
                          key, orderTotal, category)
    /\ UNCHANGED <<promos, pa, trackSide, cartSide, orderSide>>

\* The response of validatePromoCode has gone out.
RespondValidate ==
    /\ reply # NoReply
    /\ reply' = NoReply
    /\ UNCHANGED <<promos, pa, trackSide, cartSide, orderSide>>

\* The requests of applyPromoCode that can be in flight together.
Appliers == {"a1", "a2"}

IdleApply ==
    [pc |-> "idle", code |-> Null, orderTotal |-> 0, promo |-> Save10,
     discount |-> 0, status |-> 0]

\* applyPromoCode up to its save: PromoCode.findOne (404 when absent),
\* validateForOrder without a category (400 on its first error),
\* calculateDiscount and usedCount += 1 on the loaded document.
LoadPromo(a) ==
    /\ pa[a].pc = "idle"
    /\ reply = NoReply
    /\ \E code \in CodeInputs, orderTotal \in OrderTotals :
         LET key == ToUpperCase(code)
         IN  pa' = [pa EXCEPT ![a] =
               IF key \notin DOMAIN promos
               THEN [IdleApply EXCEPT !.pc = "failed", !.status = 404, !.code = key,
                                      !.orderTotal = orderTotal]
               ELSE IF ValidateForOrder(promos[key], now, orderTotal, Null) # <<>>
               THEN [IdleApply EXCEPT !.pc = "failed", !.status = 400, !.code = key,
                                      !.orderTotal = orderTotal, !.promo = promos[key]]
               ELSE [IdleApply EXCEPT
                       !.pc = "save", !.code = key, !.orderTotal = orderTotal,
                       !.promo = promos[key],
                       !.discount = CalculateDiscount(promos[key], orderTotal)]]
    /\ \A key \in DOMAIN promos : promos[key].usedCount < MaxUses
    /\ UNCHANGED <<promos, reply, trackSide, cartSide, orderSide>>

\* The save as it would be if it counted the use twice.
SavedPromoTwice(stored, loaded) == [stored EXCEPT !.usedCount = loaded.usedCount + 2]

\* promoCode.save() writes the one modified path: usedCount, with the value
\* the handler computed from the document it loaded.
SavedPromo(stored, loaded) == [stored EXCEPT !.usedCount = loaded.usedCount + 1]

SavePromo(a) ==
    /\ pa[a].pc = "save"
    /\ reply = NoReply
    /\ promos' = [promos EXCEPT ![pa[a].code] = SavedPromo(@, pa[a].promo)]
    /\ pa' = [pa EXCEPT ![a].pc = "done", ![a].status = 200]
    /\ UNCHANGED <<reply, trackSide, cartSide, orderSide>>

\* The response of applyPromoCode has gone out.
RespondApply(a) ==
    /\ pa[a].pc \in {"done", "failed"}
    /\ pa' = [pa EXCEPT ![a] = IdleApply]
    /\ UNCHANGED <<promos, reply, trackSide, cartSide, orderSide>>

\* togglePromoCode: isActive = !isActive, between applications.
TogglePromoCode ==
    /\ \A a \in Appliers : pa[a].pc = "idle"
    /\ reply = NoReply
    /\ \E key \in DOMAIN promos :
         promos' = [promos EXCEPT ![key].isActive = ~@]
    /\ UNCHANGED <<pa, reply, trackSide, cartSide, orderSide>>

\* Time passes, between requests.
Tick ==
    /\ reply = NoReply
    /\ \E t \in Instants : t > now /\ now' = t
    /\ lastOp' = NoOp
    /\ UNCHANGED <<trackers, mk, cartIndex, cartSide, orderSide, promoSide>>

-----------------------------------------------------------------------------
(* Specifications *)

InitStock == [Variants -> (MaxStock - 1)..MaxStock]

InitOrders ==
    /\ stock \in InitStock
    /\ sells = [v \in Variants |-> 0]
    /\ orders = {}
    /\ clock = 0
    /\ today = 1
    /\ ck = [p \in Handlers |-> IdleHandler]

InitCarts ==
    /\ carts = {}
    /\ cartSeq = 0
    /\ mg = [m \in Mergers |-> IdleMerger]
    /\ carts0 = {}

InitTrack ==
    /\ trackers = {}
    /\ now = 0
    /\ lastOp = NoOp
    /\ mk = [k \in Starters |-> IdleStarter]
    /\ cartIndex = TRUE

InitPromos ==
    /\ promos = [code \in Codes |-> Save10]
    /\ pa = [a \in Appliers |-> IdleApply]
    /\ reply = NoReply

Init == InitOrders /\ InitCarts /\ InitTrack /\ InitPromos

\* Concurrent checkouts: two createOrder requests in any interleaving.
Next == \E p \in Handlers : StartCheckout(p) \/ RunCheckout(p)

Spec == Init /\ [][Next]_vars

\* Sequential checkouts: one request at a time, over several days.
NextSeq ==
    \/ StartCheckout("r1")
    \/ RunCheckout("r1")
    \/ Respond("r1")
    \/ NextDay

InitSeq == Init /\ stock = [v \in Variants |-> MaxStock]

SpecSeq == InitSeq /\ [][NextSeq]_vars

\* Sequential checkouts of one in-stock line whose body carries any number as
\* shippingCost: the handler reads it from the body and does not check it.
ShippingInputs == ShippingCosts \cup {-5}

ShippingBodies ==
    [items : {<<a>> : a \in {l \in Lines : l.productId = "P1" /\ l.variantId \in Variants}},
     amount : ClientAmounts, shippingCost : ShippingInputs]

NextShipping ==
    \/ ReceiveOrder("r1", ShippingBodies)
    \/ RunCheckout("r1")
    \/ Respond("r1")

SpecShipping == InitSeq /\ [][NextShipping]_vars

\* Order administration, between checkouts, on the orders that two checkouts
\* of an in-stock item create.
AdminBodies ==
    {b \in Bodies : /\ b.shippingCost = 0
                    /\ Len(b.items) = 1
                    /\ b.items[1].productId = "P1"
                    /\ b.items[1].variantId = "V1"
                    /\ b.items[1].quantity = 1}

NoCheckoutInFlight == \A p \in Handlers : ck[p].pc \in {"idle", "done", "failed"}

NextAdmin ==
    \/ \E p \in Handlers : ReceiveOrder(p, AdminBodies) \/ RunCheckout(p)
    \/ NoCheckoutInFlight /\ UpdateOrderStatus
    \/ NoCheckoutInFlight /\ CancelOrders
    \/ NoCheckoutInFlight /\ DeleteOrders
    \/ NoCheckoutInFlight /\ SendToCourier
    \/ NoCheckoutInFlight /\ SyncCourierStatus

SpecAdmin == InitSeq /\ [][NextAdmin]_vars

\* A merge that runs alone, on carts that replace-cart and clear-cart calls
\* have left behind.
InitCart ==
    /\ InitOrders
    /\ stock = [v \in Variants |-> MaxStock]
    /\ InitCarts
    /\ InitTrack
    /\ InitPromos

UpdateCartAlone == mg["m1"].pc = "idle" /\ UpdateCart
ClearCartAlone == mg["m1"].pc = "idle" /\ ClearCart

NextCart ==
    \/ UpdateCartAlone
    \/ ClearCartAlone
    \/ StartMerge("m1")
    \/ RunMerge("m1")

SpecCart == InitCart /\ [][NextCart]_vars

\* Two mergeCart requests of one account with one guest session, in any
\* interleaving, on carts that updateCart has filled.
InitMerge ==
    /\ InitOrders
    /\ stock = [v \in Variants |-> MaxStock]
    /\ cartSeq = 2
    /\ mg = [m \in Mergers |-> IdleMerger]
    /\ \E guest \in CartItemLists \ {<<>>}, account \in CartItemLists :
         carts = {NewCart(1, Null, "s1", guest)}
                 \cup (IF account = <<>> THEN {} ELSE {NewCart(2, "u1", Null, account)})
    /\ carts0 = carts
    /\ InitTrack
    /\ InitPromos

NextMerge == \E m \in Mergers : StartMerge(m) \/ RunMerge(m)

SpecMerge == InitMerge /\ [][NextMerge]_vars

\* Carts and their tracking records, one request at a time, over the hours.
TrackItemLists == {<<>>, <<[product |-> "P1", variantId |-> "V1", quantity |-> 1]>>}

UpdateCartTracked ==
    \E who \in Identities, items \in TrackItemLists :
        /\ ReplaceCart(who, items)
        /\ lastOp' = Op("updateCart", who, FoundCartId(who), items = <<>>)

ClearCartTracked ==
    \E who \in Identities :
        /\ ClearCartOf(who)
        /\ lastOp' = Op("clearCart", who, FoundCartId(who), FALSE)

NextTrack ==
    \/ UpdateCartTracked
    \/ ClearCartTracked
    \/ MarkCheckoutStarted
    \/ MarkCartConverted
    \/ ProcessAbandonedCarts
    \/ GetAbandonedCarts
    \/ Tick

SpecTrack == InitCart /\ [][NextTrack]_vars

\* Two markCheckoutStarted requests in any interleaving, on an account cart
\* and a guest cart of which any may already have a tracking record.  The
\* schema declares the unique index on cart next to a plain index on the same
\* field: the collection has the unique one or only the plain one.
InitStart ==
    /\ InitOrders
    /\ stock = [v \in Variants |-> MaxStock]
    /\ cartSeq = 2
    /\ carts = {NewCart(1, "u1", Null, <<[product |-> "P1", variantId |-> "V1", quantity |-> 1]>>), NewCart(2, Null, "s1", <<[product |-> "P1", variantId |-> "V1", quantity |-> 1]>>)}
    /\ carts0 = carts
    /\ mg = [m \in Mergers |-> IdleMerger]
    /\ trackers \in SUBSET {NewTracker(1, 0), NewTracker(2, 0)}
    /\ now = 0
    /\ lastOp = NoOp
    /\ mk = [k \in Starters |-> IdleStarter]
    /\ cartIndex \in BOOLEAN
    /\ InitPromos

\* The cart, tracking, merge and order requests of a shopper, served one at a
\* time: a merge and a checkout run to their end before the next request.
Quiet ==
    /\ mg["m1"].pc \in {"idle", "done", "failed"}
    /\ ck["r1"].pc \in {"idle", "done", "failed"}

NextFlow ==
    \/ Quiet /\ UpdateCartTracked
    \/ Quiet /\ ClearCartTracked
    \/ Quiet /\ MarkCheckoutStarted
    \/ Quiet /\ MarkCartConverted
    \/ Quiet /\ StartMerge("m1")
    \/ RunMerge("m1")
    \/ Quiet /\ ReceiveOrder("r1", AdminBodies)
    \/ RunCheckout("r1")

SpecFlow == InitCart /\ [][NextFlow]_vars

NextStart ==
    \/ \E k \in Starters : StartMark(k) \/ RunMark(k)
    \/ Tick

SpecStart == InitStart /\ [][NextStart]_vars

\* Promo validation and application on one promo of any configuration.
InitPromo ==
    /\ InitOrders
    /\ stock = [v \in Variants |-> MaxStock]
    /\ InitCarts
    /\ InitTrack
    /\ promos \in [Codes -> PromoDocs]
    /\ pa = [a \in Appliers |-> IdleApply]
    /\ reply = NoReply

NextPromo ==
    \/ ValidatePromoCode
    \/ RespondValidate
    \/ LoadPromo("a1")
    \/ SavePromo("a1")
    \/ RespondApply("a1")
    \/ TogglePromoCode
    \/ Tick

SpecPromo == InitPromo /\ [][NextPromo]_vars

\* Two applyPromoCode requests in any interleaving, on a promo that may be
\* used once.
InitApply ==
    /\ InitOrders
    /\ stock = [v \in Variants |-> MaxStock]
    /\ InitCarts
    /\ InitTrack
    /\ promos \in [Codes -> {d \in PromoDocs : d.usageLimit = <<1>>}]
    /\ pa = [a \in Appliers |-> IdleApply]
    /\ reply = NoReply

NextApply ==
    \/ \E a \in Appliers : LoadPromo(a) \/ SavePromo(a)
    \/ Tick

SpecApply == InitApply /\ [][NextApply]_vars

-----------------------------------------------------------------------------
(* Properties of the checkout and order pipeline *)

RECURSIVE SumTotalPrice(_)
SumTotalPrice(items) ==
    IF items = <<>> THEN 0 ELSE Head(items).totalPrice + SumTotalPrice(Tail(items))

\* Quantity the lines of a list carry for a variant.
RECURSIVE QuantityOf(_, _)
QuantityOf(lines, v) ==
    IF lines = <<>> THEN 0
    ELSE (IF Head(lines).variantId = v THEN Head(lines).quantity ELSE 0)
         + QuantityOf(Tail(lines), v)

\* Handlers whose order was persisted, and the order a handler persisted.
Succeeded == {p \in Handlers : ck[p].pc \in {"decrement", "done"}}
OrderOf(p) == CHOOSE o \in orders : o._id = ck[p].order

\* Quantity of a variant bought by the checkouts that succeeded.
RECURSIVE PurchasedBy(_, _)
PurchasedBy(ps, v) ==
    IF ps = {} THEN 0
    ELSE LET p == CHOOSE x \in ps : TRUE
         IN  QuantityOf(ck[p].validatedItems, v) + PurchasedBy(ps \ {p}, v)

\* C1: Stock non-negativity.  In every interleaving of concurrent checkouts
\* no variant's stock is below zero, and the quantities bought by the
\* checkouts that succeeded do not exceed the stock the variant started with
\* (stock + sells is that starting stock: the two move together).
StockNonNegativity ==
    \A v \in Variants :
        /\ stock[v] >= 0
        /\ PurchasedBy(Succeeded, v) <= stock[v] + sells[v]

\* C2: Order id uniqueness.  No two persisted orders share an orderId, in any
\* interleaving of concurrent same-day checkouts.
OrderIdUnique ==
    \A a, b \in orders : a.orderId = b.orderId => a = b

\* C2 witness: the race happened (a handler computed an id that was taken in
\* the meantime and was turned away) and the other order is persisted.
OrderIdRaceRejected ==
    \E p \in Handlers : ck[p].pc = "failed" /\ ck[p].error = 500 /\ orders # {}

\* C3: two valid checkouts that run concurrently on a day without orders
\* both succeed, one with sequence 1 and the other with sequence 2.
ConcurrentCheckoutsBothNumbered ==
    (\A p \in Handlers : /\ ck[p].pc \in {"done", "failed"}
                         /\ ck[p].error \notin {400, 404})
    => /\ \A p \in Handlers : ck[p].pc = "done"
       /\ {o.orderId.num : o \in orders} = {1, 2}

\* C4: Price integrity.  Every item of a persisted order carries the catalog
\* variant's effective price (salePrice if > 0, else regularPrice) and that
\* price times the quantity as line total, whatever the client submitted.
PriceIntegrity ==
    \A p \in Succeeded :
        LET o == OrderOf(p)
            lines == ck[p].body.items
        IN  /\ Len(o.items) = Len(lines)
            /\ \A k \in 1..Len(lines) :
                 LET variant == Catalog[lines[k].productId].variants[lines[k].variantId]
                     effective == IF variant.salePrice > 0 THEN variant.salePrice
                                  ELSE variant.regularPrice
                 IN  /\ o.items[k].price = effective
                     /\ o.items[k].quantity = lines[k].quantity
                     /\ o.items[k].totalPrice = effective * lines[k].quantity

\* C4 witness: an order is persisted for a regular-price line and a sale-price
\* line whose client prices differ from the catalog's.
PriceIntegrityCase ==
    \E p \in Succeeded :
        /\ Len(ck[p].body.items) = 2
        /\ ck[p].body.items[1].variantId = "V1"
        /\ ck[p].body.items[2].variantId = "V2"
        /\ OrderOf(p).items[1].price # ck[p].body.items[1].price
        /\ OrderOf(p).items[2].price # ck[p].body.items[2].price

\* The line a handler is about to validate fails validation: its product or
\* variant does not exist, or it asks for more than the variant's stock.
NextLineInvalid(p) ==
    LET line == ck[p].body.items[Len(ck[p].validatedItems) + 1]
    IN  \/ line.productId \notin DOMAIN Catalog
        \/ line.variantId \notin DOMAIN Catalog[line.productId].variants
        \/ line.quantity > stock[line.variantId]

FailedValidationStep ==
    \A p \in Handlers :
        (ck[p].pc = "validate" /\ NextLineInvalid(p) /\ ck'[p] # ck[p])
        => /\ ck'[p].pc = "failed"
           /\ ck'[p].error \in {400, 404}
           /\ orders' = orders
           /\ stock' = stock
           /\ sells' = sells

FailedValidationWroteNothing ==
    \A p \in Handlers :
        (ck[p].pc = "failed" /\ ck[p].error \in {400, 404})
        => /\ ck[p].order = 0
           /\ ck[p].i = 0
           /\ \A o \in orders : \E q \in Succeeded : ck[q].order = o._id

\* C5: when a line fails validation the checkout fails, at that step and
\* afterwards no order of it is persisted, and it changes no stock or
\* sold-count, also when earlier lines passed.
FailedValidationLeavesNoTrace ==
    [][FailedValidationStep]_vars /\ []FailedValidationWroteNothing

\* C5 witness: a checkout failed on its second line for lack of stock after
\* its first line passed.
FailedOnSecondLine ==
    \E p \in Handlers :
        /\ ck[p].pc = "failed"
        /\ ck[p].error = 400
        /\ Len(ck[p].validatedItems) = 1
        /\ stock = ck[p].stockAtStart

OrderFrame(o, n) ==
    [n EXCEPT !.orderStatus = o.orderStatus,
              !.statusHistory = o.statusHistory,
              !.courierInfo = o.courierInfo] = o

\* C7: Order-item immutability.  No step changes a persisted order's items,
\* prices, amount or any field other than orderStatus, statusHistory and
\* courierInfo.
OrderItemsImmutable ==
    [][\A o \in orders : \A n \in orders' : n._id = o._id => OrderFrame(o, n)]_vars

\* C7 witness: an order that a status update and a courier hand-over have
\* written to.
OrderWasAdministered ==
    \E o \in orders :
        /\ Len(o.statusHistory) = 2
        /\ o.courierInfo.consignmentId # Null
        /\ o.orderStatus # "pending"

-----------------------------------------------------------------------------
(* Properties of the cart merge *)

\* Quantity the lines of a cart carry for a product + variant pair.
RECURSIVE CartQuantity(_, _)
CartQuantity(items, pair) ==
    IF items = <<>> THEN 0
    ELSE (IF Head(items).product = pair[1] /\ Head(items).variantId = pair[2]
          THEN Head(items).quantity ELSE 0)
         + CartQuantity(Tail(items), pair)

\* The items of the one cart of a set of carts, no items when there is none.
ItemsOf(cs) == IF cs = {} THEN <<>> ELSE FirstCart(cs).items

\* C9: Cart merge additivity.  When a merge of a guest cart has run alone,
\* the account has one cart, its quantity for every product + variant pair
\* is the account's quantity before plus the guest's, and the guest cart is
\* gone.
MergeAdditive ==
    LET h == mg["m1"]
    IN  (h.pc = "done" /\ h.guestCartId # 0)
        => /\ Cardinality(CartsOfUser(h.user)) = 1
           /\ CartsOfSession(h.sessionId) = {}
           /\ \A pair \in CartPairs :
                CartQuantity(ItemsOf(CartsOfUser(h.user)), pair)
                = CartQuantity(h.cart.items, pair) + CartQuantity(h.itemsToMerge, pair)

\* C9 witness: guest {A:2, B:1} merged into account {A:1, C:2} gave
\* {A:3, B:1, C:2}.
MergedExample ==
    LET h == mg["m1"]
        A == <<"P1", "V1">>
        B == <<"P1", "V2">>
        C == <<"P2", "V3">>
    IN  /\ h.pc = "done"
        /\ h.guestCartId # 0
        /\ CartQuantity(h.itemsToMerge, A) = 2 /\ CartQuantity(h.itemsToMerge, B) = 1
        /\ CartQuantity(h.cart.items, A) = 1 /\ CartQuantity(h.cart.items, C) = 2
        /\ CartQuantity(ItemsOf(CartsOfUser(h.user)), A) = 3
        /\ CartQuantity(ItemsOf(CartsOfUser(h.user)), B) = 1
        /\ CartQuantity(ItemsOf(CartsOfUser(h.user)), C) = 2

\* C10: Concurrent merge safety.  When two merges of the same account and the
\* same guest session have both finished, the account has exactly one cart,
\* it holds for every pair the account's quantity before plus the guest's
\* (each guest line added once), and the guest cart is gone.
ConcurrentMergeIsSingleMerge ==
    (\A m \in Mergers : /\ mg[m].pc \in {"done", "failed"}
                        /\ mg[m].sessionId = "s1"
                        /\ mg[m].guestItems = <<>>)
    => /\ Cardinality(CartsOfUser("u1")) = 1
       /\ CartsOfSession("s1") = {}
       /\ \A pair \in CartPairs :
            CartQuantity(ItemsOf(CartsOfUser("u1")), pair)
            = CartQuantity(ItemsOf({c \in carts0 : c.user = "u1"}), pair)
              + CartQuantity(ItemsOf({c \in carts0 : c.sessionId = "s1"}), pair)

-----------------------------------------------------------------------------
(* Properties of the cart store *)

\* C11: Cart line uniqueness.  No cart holds two lines with the same product
\* and variant, after any sequence of updateCart and mergeCart requests.
CartLinesUnique ==
    \A c \in carts :
        \A i, j \in 1..Len(c.items) :
            (/\ c.items[i].product = c.items[j].product
             /\ c.items[i].variantId = c.items[j].variantId) => i = j

-----------------------------------------------------------------------------
(* Properties of the promo engine *)

Min(a, b) == IF a <= b THEN a ELSE b

\* The discount d (cents) is within the bounds for the promo and the order
\* total (cents).
Bounded(promo, orderTotal, d) ==
    /\ 0 <= d
    /\ d <= orderTotal
    /\ promo.maxDiscount # <<>> => d <= promo.maxDiscount[1]

\* C13: Discount boundedness.  Every discount that validatePromoCode answers
\* or applyPromoCode computes is at least 0, at most the order total, and at
\* most maxDiscount when the promo has one.
DiscountBounded ==
    /\ reply.status = 200 => Bounded(promos[reply.code], reply.orderTotal, reply.discount)
    /\ pa["a1"].pc \in {"save", "done"} => Bounded(pa["a1"].promo, pa["a1"].orderTotal, pa["a1"].discount)

\* min(min(raw, maxDiscount if set), orderTotal), in hundredths of a cent.
Clamped(promo, orderTotal) ==
    LET raw == IF promo.discountType = "percentage"
               THEN orderTotal * promo.discountValue
               ELSE promo.discountValue * 100
        capped == IF promo.maxDiscount = <<>> THEN raw
                  ELSE Min(raw, promo.maxDiscount[1] * 100)
    IN  Min(capped, orderTotal * 100)

\* C14 as stated: the discount answered is exactly
\* min(min(raw, maxDiscount if set), orderTotal).
DiscountIsClamped ==
    /\ reply.status = 200
       => reply.discount * 100 = Clamped(promos[reply.code], reply.orderTotal)
    /\ pa["a1"].pc \in {"save", "done"}
       => pa["a1"].discount * 100 = Clamped(pa["a1"].promo, pa["a1"].orderTotal)

\* d (cents) is x (hundredths of a cent) rounded to the nearest cent, a half
\* going up.
NearestCent(d, x) == x - 50 < d * 100 /\ d * 100 <= x + 50

\* C14: the discount answered is min(min(raw, maxDiscount if set), orderTotal)
\* rounded to the nearest cent, where raw is orderTotal * value / 100 for a
\* percentage promo and value for a fixed one.
DiscountIsRoundedClamped ==
    /\ reply.status = 200
       => NearestCent(reply.discount, Clamped(promos[reply.code], reply.orderTotal))
    /\ pa["a1"].pc \in {"save", "done"}
       => NearestCent(pa["a1"].discount, Clamped(pa["a1"].promo, pa["a1"].orderTotal))

\* C14 witness: 10 percent with maxDiscount 15.00 answered 15.00 on an order
\* total of 200.00.
CappedExample ==
    /\ reply.status = 200
    /\ reply.orderTotal = 20000
    /\ reply.discount = 1500
    /\ promos[reply.code].discountType = "percentage"
    /\ promos[reply.code].discountValue = 10
    /\ promos[reply.code].maxDiscount = <<1500>>

Rules == {"inactive", "notYetValid", "expired", "usageLimit", "minOrder", "category"}

\* The rule is violated by the promo at the hour, for the order total and the
\* category (Null when the request names none).
Violated(rule, promo, at, orderTotal, category) ==
    CASE rule = "inactive" -> ~promo.isActive
      [] rule = "notYetValid" -> at < promo.validFrom
      [] rule = "expired" -> at > promo.validUntil
      [] rule = "usageLimit" ->
            promo.usageLimit # <<>> /\ promo.usedCount >= promo.usageLimit[1]
      [] rule = "minOrder" -> orderTotal < promo.minOrderAmount
      [] rule = "category" ->
            /\ promo.applicableCategories # <<>>
            /\ category # Null
            /\ \A k \in 1..Len(promo.applicableCategories) :
                 promo.applicableCategories[k] # category

Occurrences(errors, rule) == Cardinality({k \in 1..Len(errors) : errors[k] = rule})

-----------------------------------------------------------------------------
(* Properties of the abandonment tracker and of the order status *)

SweepOps == {"processAbandonedCarts", "getAbandonedCarts"}

AbandonedRecords(ts) == {t \in ts : t.stage = "abandoned"}

\* C17: Abandonment sweep idempotence.  A sweep that follows the same sweep,
\* with no request and no hour in between, leaves the records in stage
\* abandoned as they are, abandonedAt included.
SweepIdempotent ==
    [][(lastOp.op \in SweepOps /\ lastOp'.op = lastOp.op)
       => AbandonedRecords(trackers') = AbandonedRecords(trackers)]_vars

\* C17 witness: the scheduler's sweep ran twice in succession and two records
\* are abandoned.
SweptTwice ==
    /\ lastOp.op = "processAbandonedCarts"
    /\ lastOp.again
    /\ Cardinality(AbandonedRecords(trackers)) = 2

\* C18: a sweep moves to stage abandoned, stamped with the hour of the sweep,
\* the records in an active stage whose last activity is before the sweep's
\* threshold, and leaves every other record as it is.
SweepAbandonsExactlyStale ==
    [][lastOp'.op \in SweepOps
       => LET threshold == now - (IF lastOp'.op = "processAbandonedCarts"
                                  THEN CronHours ELSE DashboardHours)
          IN  /\ Cardinality(trackers') = Cardinality(trackers)
              /\ \A t \in trackers :
                   IF t.stage \in ActiveStages /\ t.lastActivityAt < threshold
                   THEN [t EXCEPT !.stage = "abandoned", !.abandonedAt = now]
                        \in trackers'
                   ELSE t \in trackers']_vars

\* C18 witness: the one-hour sweep at hour 2 abandoned a record last active
\* at hour 0 and left one last active at hour 1 in its stage.
SweptStaleOnly ==
    /\ lastOp.op = "getAbandonedCarts"
    /\ ~lastOp.again
    /\ now = 2
    /\ \E t \in trackers :
         t.stage = "abandoned" /\ t.lastActivityAt = 0 /\ t.abandonedAt = 2
    /\ \E t \in trackers :
         t.stage = "checkout_info_filled" /\ t.lastActivityAt = 1
         /\ t.abandonedAt = NoDate

AllowedTransitions ==
    {<<"pending", "processing">>, <<"processing", "shipped">>,
     <<"shipped", "delivered">>, <<"pending", "cancelled">>,
     <<"processing", "cancelled">>, <<"shipped", "returned">>}

\* C19: the status of an order changes only along pending -> processing ->
\* shipped -> delivered, pending or processing -> cancelled, and shipped ->
\* returned.
StatusMovesAlongAllowed ==
    [][\A o \in orders : \A n \in orders' :
         (n._id = o._id /\ n.orderStatus # o.orderStatus)
         => <<o.orderStatus, n.orderStatus>> \in AllowedTransitions]_vars

\* C20: abandonedAt is set only on records whose stage is abandoned: a record
\* that checkout activity moves back to an active stage has it cleared.
AbandonedAtOnlyOnAbandoned ==
    \A t \in trackers : t.abandonedAt # NoDate => t.stage = "abandoned"

\* C21: every order starts with status pending and a history whose first
\* entry is pending, and after any status-changing operation the last entry
\* of statusHistory is the current orderStatus.
StatusHistoryTracksStatus ==
    \A o \in orders :
        /\ o.statusHistory # <<>>
        /\ o.statusHistory[1] = "pending"
        /\ o.statusHistory[Len(o.statusHistory)] = o.orderStatus

\* C22: the orderStatus of every stored order is one of the six values of
\* the schema's enum, whatever status value updateOrderStatus is asked to set
\* and after cancelOrders.
OrderStatusInEnum == \A o \in orders : o.orderStatus \in Statuses

-----------------------------------------------------------------------------
(* Properties of the merge's order of writes *)

\* C23: mergeCart deletes the guest cart only after the merged account cart
\* is written: in every state, also between the steps of a request and after
\* a failed save, each line a request took from the guest cart is in the
\* guest cart or in the account's cart.
GuestItemsNeverLost ==
    \A m \in Mergers :
        mg[m].guestCartId # 0
        => \A pair \in CartPairs :
             CartQuantity(mg[m].itemsToMerge, pair) > 0
             => \E c \in CartsOfSession(mg[m].sessionId) \cup CartsOfUser(mg[m].user) :
                  CartQuantity(c.items, pair) > 0

\* C28: there is at most one cart per account and at most one per session
\* token, in every interleaving of concurrent requests of the same identity.
OneCartPerIdentity ==
    /\ \A u \in Users : Cardinality(CartsOfUser(u)) <= 1
    /\ \A sid \in Sessions : Cardinality(CartsOfSession(sid)) <= 1

-----------------------------------------------------------------------------
(* Properties of checkouts served one at a time *)

\* C27: with checkouts served one at a time no variant's stock goes below
\* zero, also when the item list of a request names the same product and
\* variant in more than one line.
SequentialStockNonNegative == \A v \in Variants : stock[v] >= 0

\* C30: the amount of every persisted order is at least the sum of its
\* catalog-derived line totals: no field of the request, shippingCost
\* included, lowers it below the validated subtotal.
AmountAtLeastSubtotal ==
    \A o \in orders : o.amount >= SumTotalPrice(o.items)

-----------------------------------------------------------------------------
(* Properties of concurrent promo applications *)

\* Requests of applyPromoCode that answered success for the code.
AppliedOk(key) == {a \in Appliers : pa[a].pc = "done" /\ pa[a].code = key}

\* C26: for a promo with usage limit L, usedCount never exceeds L and no more
\* than L applyPromoCode requests answer success, in every interleaving of
\* concurrent requests.
UsageLimitRespected ==
    \A key \in DOMAIN promos :
        promos[key].usageLimit # <<>>
        => /\ promos[key].usedCount <= promos[key].usageLimit[1]
           /\ Cardinality(AppliedOk(key)) <= promos[key].usageLimit[1]

-----------------------------------------------------------------------------
(* Properties of concurrent checkout starts *)

TrackersOf(cartId) == {t \in trackers : t.cart = cartId}

\* C25: a cart never has two tracking records, in any interleaving of
\* concurrent markCheckoutStarted requests on it; once the requests have
\* finished, the cart has exactly one, in stage checkout_info_filled.
OneTrackerPerCart ==
    /\ \A c \in carts : Cardinality(TrackersOf(c._id)) <= 1
    /\ (\A k \in Starters : mk[k].pc \in {"done", "failed"})
       => \A k \in Starters :
            mk[k].cart # 0
            => /\ Cardinality(TrackersOf(mk[k].cart)) = 1
               /\ \A t \in TrackersOf(mk[k].cart) : t.stage = "checkout_info_filled"

-----------------------------------------------------------------------------
(* Properties of the shopper's flow from cart to order *)

\* C24: markCartConverted removes a cart and its tracking record only after
\* an order of that checkout has been persisted: a cart has never been
\* removed by conversion while there is no order.
ConversionFollowsOrder ==
    (lastOp.op = "markCartConverted" /\ lastOp.cart # 0) => orders # {}

\* C29: every tracking record references a cart that exists, after any
\* sequence of updateCart, clearCart, mergeCart, markCheckoutStarted and
\* markCartConverted requests.
NoOrphanTracker ==
    \A t \in trackers : \E c \in carts : c._id = t.cart

====
